---- MODULE Spec2Model ----
(***************************************************************************)
(* A model of twrpdtgen_v3: the boot configuration resolver                *)
(* (utils/boot_configuration.py), the fstab locator and the generation run *)
(* (device_tree.py) and the proprietary files list                         *)
(* (proprietary_files/proprietary_files_list.py).                          *)
(*                                                                         *)
(* Conventions.  A Python value that is falsy (None, "", an absent path)   *)
(* is Empty, the empty tuple; a non-empty value read from an image is the  *)
(* pair <<slot, field>>, so that every value tells where it came from.     *)
(* An optional integer is a set: {} when absent, {n} when present.  A file *)
(* name is the sequence of its dot-separated parts and a path the sequence *)
(* of its names.                                                           *)
(***************************************************************************)
EXTENDS Integers, Sequences, FiniteSets, TLC

VARIABLES
    images,        \* the <name>.img files present in the dump root
    info,          \* slot -> what AIKManager.unpackimg yields for its image
    ramdisk,       \* slot -> the unpacked ramdisk directory of its manager
    pyGlobRaises,  \* whether this interpreter's rglob rejects an inner '**'
    unpackFails,   \* the slots whose AIKManager.unpackimg raises
    cleanupFails,  \* the slots whose AIKManager.cleanup raises
    bc,            \* the BootConfiguration object
    extracted,     \* the slots whose image was unpacked, in order
    released,      \* the slots whose temporaries were released, in order
    recoveryRamdisk, \* the last answer of get_recovery_ramdisk_path
    partitions,    \* the list of partitions handed to ProprietaryFilesList
    matches,       \* section name -> the relative paths the section claims
    sectionFails,  \* the <<section name, partition>> calls of add_files that raise
    pfl,           \* the ProprietaryFilesList object
    docs,          \* the last two get_formatted_list calls, oldest first
    vendorFs,      \* the vendor partition: relative path -> text of the file
    systemFs,      \* the system partition: relative path -> text of the file
    tree           \* the DeviceTree object and the position of its run

dumpVars == <<images, info, ramdisk, pyGlobRaises, unpackFails, cleanupFails>>

bootVars == <<dumpVars, bc, extracted, released, recoveryRamdisk>>

propVars == <<partitions, matches, sectionFails, pfl, docs>>

treeVars == <<vendorFs, systemFs, tree>>

vars == <<bootVars, propVars, treeVars>>

----------------------------------------------------------------------------
(* Values *)

Empty == <<>>

Truthy(v) == v # Empty

\* Python's `a or b`.
PyOr(a, b) == IF Truthy(a) THEN a ELSE b

Slots == {"boot", "init_boot", "recovery", "vendor_boot", "vendor_kernel_boot"}

ImageNames == Slots \cup {"dtbo"}

BlobFields == {"kernel", "dt", "dtb", "dtbo"}

ScalarFields == {"base_address", "cmdline", "pagesize"}

OffsetFields == {"ramdisk_offset", "tags_offset"}

ValueFields == BlobFields \cup ScalarFields \cup OffsetFields

\* The largest boot-header version an image of the model carries.
MaxHeaderVersion == 5

HeaderVersions == {{}} \cup {{n} : n \in 0..MaxHeaderVersion}

\* The image info of slot s whose fields in E are empty.
ImageInfo(s, E, hv) ==
    [f \in ValueFields |-> IF f \in E THEN Empty ELSE <<s, f>>]
        @@ [header_version |-> hv]

----------------------------------------------------------------------------
(* Ramdisk trees and pathlib *)

File(path) == [path |-> path, file |-> TRUE]

Dir(path) == [path |-> path, file |-> FALSE]

IsSuffix(pat, path) ==
    /\ Len(pat) <= Len(path)
    /\ SubSeq(path, Len(path) - Len(pat) + 1, Len(path)) = pat

\* Path.rglob of a pattern without wildcards: every entry, file or
\* directory, at any depth, whose last components are the pattern's.
RGlobLiteral(entries, pat) == {e \in entries : IsSuffix(pat, e.path)}

\* fnmatch of a name against init.recovery.*.rc; the '*' spans dots.
MatchesInitRecoveryRc(name) ==
    /\ Len(name) >= 4
    /\ name[1] = "init"
    /\ name[2] = "recovery"
    /\ name[Len(name)] = "rc"

\* Path.rglob("init.recovery.**.rc") on an interpreter that accepts the
\* pattern: the inner '**' matches as '*'.
RGlobInitRecoveryRc(entries) ==
    {e \in entries : MatchesInitRecoveryRc(e.path[Len(e.path)])}

NoRamdisk == [attr |-> FALSE, exists |-> FALSE, tree |-> {}]

MissingRamdisk == [attr |-> TRUE, exists |-> FALSE, tree |-> {}]

Ramdisk(entries) == [attr |-> TRUE, exists |-> TRUE, tree |-> entries]

----------------------------------------------------------------------------
(* BootConfiguration *)

RecoveryModes == {"separate_partition", "vendor_boot_ramdisk", "boot_ramdisk"}

\* _get_image_path: the image's path when <partition>.img is a file.
GetImagePathUnchecked(imgs, partition) == <<"dump", partition>>

GetImagePath(imgs, partition) ==
    IF partition \in imgs THEN <<"dump", partition>> ELSE Empty

ExtractOrder ==
    <<"boot", "init_boot", "recovery", "vendor_boot", "vendor_kernel_boot">>

\* The slots the constructor extracts: boot, then every optional slot whose
\* image exists (_extract_if_exists returns (None, None) for the others).
ExtractedSlots(imgs) ==
    SelectSeq(ExtractOrder, LAMBDA s : s \in imgs)

\* The GKI test of _detect_boot_type.
DetectGkiLoose(bootInfo) ==
    \E v \in bootInfo.header_version : v >= 3

DetectGki(bootInfo) ==
    \E v \in bootInfo.header_version : v >= 4

\* The recovery indicator scan of _detect_boot_type over vendor_boot's
\* ramdisk: "found", "none", or "raise" when rglob rejects the third
\* pattern.  The loop stops at the first indicator that matches.
ScanIndicators(rd, globRaises) ==
    IF ~(rd.attr /\ rd.exists) THEN "none"
    ELSE IF RGlobLiteral(rd.tree, <<<<"sbin">>, <<"recovery">>>>) # {} THEN "found"
    ELSE IF RGlobLiteral(rd.tree, <<<<"system">>, <<"bin">>, <<"recovery">>>>) # {}
         THEN "found"
    ELSE IF globRaises THEN "raise"
    ELSE IF RGlobInitRecoveryRc(rd.tree) # {} THEN "found"
    ELSE "none"

\* The recovery mode decision of _detect_boot_type.
RecoveryModeIgnoringRecovery(recoveryPath, usesVendorBoot, recInVendorBoot) ==
    IF usesVendorBoot /\ recInVendorBoot THEN "vendor_boot_ramdisk"
    ELSE IF Truthy(recoveryPath) THEN "separate_partition"
    ELSE "boot_ramdisk"

RecoveryMode(recoveryPath, usesVendorBoot, recInVendorBoot) ==
    IF Truthy(recoveryPath) THEN "separate_partition"
    ELSE IF usesVendorBoot
         THEN IF recInVendorBoot THEN "vendor_boot_ramdisk" ELSE "boot_ramdisk"
    ELSE "boot_ramdisk"

\* One override step of the constructor: x = slot.field or x.
OverrideKeepingEmpty(present, slotInfo, field, current) ==
    IF present THEN slotInfo[field] ELSE current

Override(present, slotInfo, field, current) ==
    IF present THEN PyOr(slotInfo[field], current) ELSE current

\* The effective kernel, dt or dtb: seeded from boot, then overridden by
\* vendor_boot, then by vendor_kernel_boot.
MergeBlob(imgs, inf, field) ==
    LET seed == inf["boot"][field]
        afterVb == Override("vendor_boot" \in imgs, inf["vendor_boot"], field, seed)
    IN  Override("vendor_kernel_boot" \in imgs, inf["vendor_kernel_boot"],
                 field, afterVb)

\* The effective dtbo: seeded from the dump's dtbo.img.
MergeDtbo(imgs, inf) ==
    LET seed == GetImagePath(imgs, "dtbo")
        afterVb == Override("vendor_boot" \in imgs, inf["vendor_boot"], "dtbo", seed)
    IN  Override("vendor_kernel_boot" \in imgs, inf["vendor_kernel_boot"],
                 "dtbo", afterVb)

\* The effective base address, command line or page size: seeded from boot,
\* then overridden by vendor_boot, init_boot and vendor_kernel_boot.
MergeScalarInitBootFirst(imgs, inf, field) ==
    LET seed == inf["boot"][field]
        afterIb == Override("init_boot" \in imgs, inf["init_boot"], field, seed)
        afterVb == Override("vendor_boot" \in imgs, inf["vendor_boot"], field, afterIb)
    IN  Override("vendor_kernel_boot" \in imgs, inf["vendor_kernel_boot"],
                 field, afterVb)

MergeScalar(imgs, inf, field) ==
    LET seed == inf["boot"][field]
        afterVb == Override("vendor_boot" \in imgs, inf["vendor_boot"], field, seed)
        afterIb == Override("init_boot" \in imgs, inf["init_boot"], field, afterVb)
    IN  Override("vendor_kernel_boot" \in imgs, inf["vendor_kernel_boot"],
                 field, afterIb)

\* The object before its constructor ran, and the object a failed
\* constructor leaves nobody a reference to.
NoBootConfiguration(state, error) ==
    [state |-> state, error |-> error, managers |-> {}]

\* BootConfiguration.__init__ on a dump whose boot image exists and whose
\* images all unpack.
ConstructedBootConfiguration(imgs, inf, rds, globRaises) ==
    LET scan == ScanIndicators(
                    IF "vendor_boot" \in imgs THEN rds["vendor_boot"] ELSE NoRamdisk,
                    globRaises)
        usesVb == "vendor_boot" \in imgs
        recInVb == scan = "found"
    IN  IF scan = "raise"
        THEN NoBootConfiguration("failed", "ValueError")
        ELSE [state |-> "constructed", error |-> "",
              managers |-> {s \in Slots : s \in imgs},
              is_gki |-> DetectGki(inf["boot"]),
              uses_vendor_boot |-> usesVb,
              recovery_in_vendor_boot |-> recInVb,
              recovery_mode |->
                  RecoveryMode(GetImagePath(imgs, "recovery"), usesVb, recInVb),
              kernel |-> MergeBlob(imgs, inf, "kernel"),
              dt |-> MergeBlob(imgs, inf, "dt"),
              dtb |-> MergeBlob(imgs, inf, "dtb"),
              dtbo |-> MergeDtbo(imgs, inf),
              base_address |-> MergeScalar(imgs, inf, "base_address"),
              cmdline |-> MergeScalar(imgs, inf, "cmdline"),
              pagesize |-> MergeScalar(imgs, inf, "pagesize"),
              ramdisk_offset |-> inf["boot"]["ramdisk_offset"],
              tags_offset |-> inf["boot"]["tags_offset"],
              vendor_ramdisk_offset |->
                  IF usesVb THEN inf["vendor_boot"]["ramdisk_offset"] ELSE Empty,
              vendor_tags_offset |->
                  IF usesVb THEN inf["vendor_boot"]["tags_offset"] ELSE Empty]

\* BootConfiguration.__init__: the assertion on the boot image, the
\* extraction of every present slot, then detection and merge.
BootConfigurationInit(imgs, inf, rds, globRaises) ==
    IF ~Truthy(GetImagePath(imgs, "boot"))
    THEN [obj |-> NoBootConfiguration("failed", "No boot image found"),
          extracted |-> <<>>]
    ELSE [obj |-> ConstructedBootConfiguration(imgs, inf, rds, globRaises),
          extracted |-> ExtractedSlots(imgs)]

RECURSIVE UnpackedBefore(_, _)
\* The slots of an extraction order that unpack before the first one whose
\* unpackimg raises.
UnpackedBefore(order, fails) ==
    IF order = <<>> \/ Head(order) \in fails THEN <<>>
    ELSE <<Head(order)>> \o UnpackedBefore(Tail(order), fails)

\* BootConfiguration.__init__ when unpackimg may raise: the exception of
\* the first failing slot leaves the constructor, and with it the only
\* references to the managers of the slots unpacked before it.
BootConfigurationNew(imgs, inf, rds, globRaises, fails) ==
    IF /\ Truthy(GetImagePath(imgs, "boot"))
       /\ \E s \in imgs \cap Slots : s \in fails
    THEN [obj |-> NoBootConfiguration("failed", "unpackimg"),
          extracted |-> UnpackedBefore(ExtractedSlots(imgs), fails)]
    ELSE BootConfigurationInit(imgs, inf, rds, globRaises)

\* The order in which cleanup visits the managers.
CleanupOrder ==
    <<"boot", "init_boot", "recovery", "vendor_boot", "vendor_kernel_boot">>

RECURSIVE CleanupUntilFailure(_, _)
\* The statements of cleanup over the managers that exist: each manager's
\* cleanup in turn; one that raises ends the method.
CleanupUntilFailure(order, fails) ==
    IF order = <<>> THEN [released |-> <<>>, error |-> ""]
    ELSE IF Head(order) \in fails THEN [released |-> <<>>, error |-> "cleanup"]
    ELSE LET rest == CleanupUntilFailure(Tail(order), fails)
         IN  [released |-> <<Head(order)>> \o rest.released, error |-> rest.error]

\* BootConfiguration.cleanup
Cleanup(b, fails) ==
    CleanupUntilFailure(SelectSeq(CleanupOrder, LAMBDA s : s \in b.managers), fails)

\* get_recovery_ramdisk_path: the slot whose ramdisk holds the recovery
\* resources, as a set: recovery's, else vendor_boot's when recovery
\* resources were detected there, else boot's, else none.
GetRecoveryRamdiskPathUnflagged(b, rds) ==
    IF "recovery" \in b.managers /\ rds["recovery"].attr THEN {"recovery"}
    ELSE IF "vendor_boot" \in b.managers /\ rds["vendor_boot"].attr
         THEN {"vendor_boot"}
    ELSE IF "boot" \in b.managers /\ rds["boot"].attr THEN {"boot"}
    ELSE {}

GetRecoveryRamdiskPath(b, rds) ==
    IF "recovery" \in b.managers /\ rds["recovery"].attr THEN {"recovery"}
    ELSE IF /\ b.recovery_in_vendor_boot
            /\ "vendor_boot" \in b.managers
            /\ rds["vendor_boot"].attr
         THEN {"vendor_boot"}
    ELSE IF "boot" \in b.managers /\ rds["boot"].attr THEN {"boot"}
    ELSE {}

----------------------------------------------------------------------------
(* Relative paths and their ordinal order *)

\* A relative path string is the sequence of its character codes.
PathA == <<1, 2>>

PathB == <<2>>

RelPaths == {PathA, PathB}

\* The order a partition's directory walk yields its files in.
WalkOrder == <<PathB, PathA>>

Min(a, b) == IF a <= b THEN a ELSE b

\* Python's str.__lt__: the first differing code decides, a proper prefix
\* is smaller.
StrLess(a, b) ==
    \/ \E i \in 1..Min(Len(a), Len(b)) :
         /\ a[i] < b[i]
         /\ \A j \in 1..(i - 1) : a[j] = b[j]
    \/ /\ Len(a) < Len(b)
       /\ \A j \in 1..Len(a) : a[j] = b[j]

RECURSIVE SortedDescending(_)
SortedDescending(S) ==
    IF S = {} THEN <<>>
    ELSE LET m == CHOOSE x \in S : \A y \in S \ {x} : StrLess(y, x)
         IN  <<m>> \o SortedDescending(S \ {m})

\* sorted(set(...)) over strings.
RECURSIVE SortedSet(_)
SortedSet(S) ==
    IF S = {} THEN <<>>
    ELSE LET m == CHOOSE x \in S : \A y \in S \ {x} : StrLess(x, y)
         IN  <<m>> \o SortedSet(S \ {m})

Range(seq) == {seq[i] : i \in DOMAIN seq}

----------------------------------------------------------------------------
(* Partitions, files and sections *)

\* The largest byte content a file of the model holds.
MaxContent == 2

Contents == 1..MaxContent

\* A file of partition number part; unreadable files cannot be hashed.
ProprietaryFile(part, rel, bytes, unreadable) ==
    [part |-> part, rel |-> rel, bytes |-> bytes, unreadable |-> unreadable]

\* _sha256_of_path: the digest of the bytes, "" for an unreadable file.
Sha256OfPath(f) == IF f.unreadable THEN Empty ELSE <<"sha256", f.bytes>>

\* is_blob_allowed of the ignore rules.
IsBlobAllowed(rel) == TRUE

RegistryNames == <<"Fastboot", "VR">>

MiscName == "Misc (treble)"

NewSection(name) == [name |-> name, accepted |-> <<>>]

\* Section.get_files: the accepted relative paths.
GetFiles(section) == [i \in DOMAIN section.accepted |-> section.accepted[i].rel]

\* Whether a section's rules claim a file; the per-run Misc section has no
\* rules and accepts whatever it is handed.
SectionClaims(name, m, f) == name = MiscName \/ f.rel \in m[name]

\* Section.add_files(files, partition): the section with the files it
\* claims accepted, and the files it leaves to the next section.
AddFiles(section, m, files) ==
    [section |-> [section EXCEPT !.accepted =
                     @ \o SelectSeq(files, LAMBDA f : SectionClaims(section.name, m, f))],
     remaining |-> SelectSeq(files, LAMBDA f : ~SectionClaims(section.name, m, f))]

----------------------------------------------------------------------------
(* ProprietaryFilesList *)

RECURSIVE Flatten(_)
Flatten(seqs) ==
    IF seqs = <<>> THEN <<>> ELSE Head(seqs) \o Flatten(Tail(seqs))

\* _collect_candidate_files: every allowed file, partition by partition.
CollectCandidateFiles(parts) ==
    Flatten([i \in DOMAIN parts |->
               SelectSeq(parts[i].files, LAMBDA f : IsBlobAllowed(f.rel))])

\* What _dedupe_files does with a file whose relative path was seen with
\* another hash: it is kept (and the recorded hash stays the first one).
KeepDiffering(kept, f) == Append(kept, f)

RECURSIVE DedupeLoop(_, _, _)
DedupeLoop(files, seenByRel, kept) ==
    IF files = <<>> THEN kept
    ELSE LET f == Head(files)
             contentHash == Sha256OfPath(f)
         IN  IF f.rel \in DOMAIN seenByRel
             THEN IF seenByRel[f.rel] = contentHash
                  THEN DedupeLoop(Tail(files), seenByRel, kept)
                  ELSE DedupeLoop(Tail(files), seenByRel, KeepDiffering(kept, f))
             ELSE DedupeLoop(Tail(files),
                             [r \in DOMAIN seenByRel \cup {f.rel} |->
                                IF r = f.rel THEN contentHash ELSE seenByRel[r]],
                             Append(kept, f))

\* _dedupe_files
DedupeFiles(files) == DedupeLoop(files, << >>, <<>>)

\* The Treble test of _populate_sections.
IsTrebleAlways(part) == TRUE

IsTreble(part) == part.treble

\* The inner loop of _populate_sections without its try: a call that
\* raises ends the loop.
RECURSIVE OfferUntilFailure(_, _, _, _, _, _)
OfferUntilFailure(secs, k, m, remaining, part, fails) ==
    IF k > Len(secs) THEN [sections |-> secs, remaining |-> remaining]
    ELSE IF <<secs[k].name, part>> \in fails
         THEN [sections |-> secs, remaining |-> remaining]
    ELSE LET r == AddFiles(secs[k], m, remaining)
         IN  OfferUntilFailure([secs EXCEPT ![k] = r.section], k + 1, m,
                               r.remaining, part, fails)

\* The inner loop of _populate_sections: each section of self.sections in
\* turn takes what it claims of the remaining files; a call that raises is
\* logged and leaves the remaining files as they were.
RECURSIVE OfferToSections(_, _, _, _, _, _)
OfferToSections(secs, k, m, remaining, part, fails) ==
    IF k > Len(secs) THEN [sections |-> secs, remaining |-> remaining]
    ELSE IF <<secs[k].name, part>> \in fails
         THEN OfferToSections(secs, k + 1, m, remaining, part, fails)
    ELSE LET r == AddFiles(secs[k], m, remaining)
         IN  OfferToSections([secs EXCEPT ![k] = r.section], k + 1, m,
                             r.remaining, part, fails)

\* The outer loop of _populate_sections over self.partitions; a partition
\* with no surviving file is skipped.
RECURSIVE PopulateLoop(_, _, _, _, _, _, _)
PopulateLoop(parts, i, files, secs, misc, m, fails) ==
    IF i > Len(parts) THEN [sections |-> secs, misc |-> misc]
    ELSE LET candidates == SelectSeq(files, LAMBDA f : f.part = i)
             r == OfferToSections(secs, 1, m, candidates, i, fails)
         IN  IF candidates = <<>>
             THEN PopulateLoop(parts, i + 1, files, secs, misc, m, fails)
             ELSE PopulateLoop(parts, i + 1, files, r.sections,
                               IF IsTreble(parts[i])
                               THEN AddFiles(misc, m, r.remaining).section
                               ELSE misc,
                               m, fails)

\* _populate_sections
PopulateSections(parts, files, secs, misc, m, fails) ==
    PopulateLoop(parts, 1, files, secs, misc, m, fails)

NoProprietaryFilesList ==
    [state |-> "none", candidates |-> <<>>, deduped |-> <<>>,
     sections |-> <<>>, misc |-> NewSection(MiscName)]

\* Whether __init__ appends the Misc section to self.sections.
AppendsMisc(misc) == GetFiles(misc) # <<>>

\* ProprietaryFilesList.__init__
ProprietaryFilesListInit(parts, m, fails) ==
    LET registry == [k \in DOMAIN RegistryNames |-> NewSection(RegistryNames[k])]
        allFiles == CollectCandidateFiles(parts)
        deduped == DedupeFiles(allFiles)
        r == PopulateSections(parts, deduped, registry, NewSection(MiscName), m, fails)
    IN  [state |-> "constructed",
         candidates |-> allFiles,
         deduped |-> deduped,
         sections |-> IF AppendsMisc(r.misc)
                      THEN Append(r.sections, r.misc) ELSE r.sections,
         misc |-> r.misc]

\* One line of the document: the build description comment, a blank line,
\* a section header or a file entry.
DescLine(bd) == [kind |-> "desc", name |-> bd, path |-> <<>>]

BlankLine == [kind |-> "blank", name |-> "", path |-> <<>>]

HeaderLine(name) == [kind |-> "header", name |-> name, path |-> <<>>]

FileLine(rel) == [kind |-> "file", name |-> "", path |-> rel]

\* The entries of one block: sorted(set(normalized)).
BlockEntriesDescending(files) == SortedDescending(Range(files))

BlockEntries(files) == SortedSet(Range(files))

\* What get_formatted_list emits for one section.
SectionBlock(section) ==
    IF GetFiles(section) = <<>> THEN <<>>
    ELSE <<BlankLine, HeaderLine(section.name)>>
         \o [i \in DOMAIN BlockEntries(GetFiles(section)) |->
               FileLine(BlockEntries(GetFiles(section))[i])]

\* get_formatted_list: the header, a block for every section of
\* self.sections, then the block of self._misc_section.
GetFormattedList(p, bd) ==
    (IF bd # "" THEN <<DescLine(bd)>> ELSE <<>>)
    \o Flatten([k \in DOMAIN p.sections |-> SectionBlock(p.sections[k])])
    \o SectionBlock(p.misc)

----------------------------------------------------------------------------
(* The fstab locator *)

Tokens == {"/data", "/system", "/vendor", "ext4", "f2fs", "ubifs"}

\* The text of a file: whether it can be read, the tokens it contains and
\* whether the mount table parser accepts it.
Text(readable, tokens, wellFormed) ==
    [readable |-> readable, tokens |-> tokens, wellFormed |-> wellFormed]

\* A candidate: the tree it lies in and its path there.  Its resolved path
\* is the pair, no symbolic links being modelled.
Candidate(root, path) == [root |-> root, path |-> path]

\* fnmatch of a name against fstab*: the name's first dot-separated part
\* starts with fstab.
FstabStems == {"fstab", "fstab_default"}

MatchesFstabStar(name) == name[1] \in FstabStems

\* str.startswith("fstab.")
StartsWithFstabDot(name) == name[1] = "fstab" /\ Len(name) >= 2

EtcFstabQcom == <<<<"etc">>, <<"fstab", "qcom">>>>
EtcFstab == <<<<"etc">>, <<"fstab">>>>
EtcInitFstabZram == <<<<"etc">>, <<"init">>, <<"fstab", "zram">>>>
RamdiskFstab == <<<<"system">>, <<"etc">>, <<"fstab", "qcom">>>>
RamdiskRecovery == <<<<"sbin">>, <<"recovery">>>>

\* The order in which a directory walk yields the paths of a tree.
FsOrder == <<EtcFstab, EtcInitFstabZram, EtcFstabQcom, RamdiskRecovery, RamdiskFstab>>

AsCandidates(root, paths) ==
    [i \in DOMAIN paths |-> Candidate(root, paths[i])]

\* The ramdisk the locator searches: the recovery manager's, else the boot
\* manager's, of the boot configuration the object holds at that moment.
LocatorRamdisk(b) ==
    IF b.state = "constructed" /\ "recovery" \in b.managers THEN {"recovery"}
    ELSE IF b.state = "constructed" /\ "boot" \in b.managers THEN {"boot"}
    ELSE {}

\* Path.rglob("fstab*") under a ramdisk.
RGlobFstab(rd) ==
    IF ~rd.attr \/ ~rd.exists THEN <<>>
    ELSE SelectSeq(FsOrder,
                   LAMBDA path : /\ path \in {e.path : e \in rd.tree}
                                 /\ MatchesFstabStar(path[Len(path)]))

\* Path.glob("fstab*") directly under <partition>/etc.
GlobEtcFstab(fs) ==
    SelectSeq(FsOrder,
              LAMBDA path : /\ path \in DOMAIN fs
                            /\ Len(path) = 2
                            /\ path[1] = <<"etc">>
                            /\ MatchesFstabStar(path[2]))

\* The fallback scan of vendor.files: below etc/, named fstab.<something>.
VendorFallback(fs) ==
    SelectSeq(FsOrder,
              LAMBDA path : /\ path \in DOMAIN fs
                            /\ path[1] = <<"etc">>
                            /\ StartsWithFstabDot(path[Len(path)]))

RECURSIVE Unique(_, _)
\* The de-duplication by resolved path, first occurrence kept.
Unique(cands, seen) ==
    IF cands = <<>> THEN <<>>
    ELSE IF Head(cands) \in seen THEN Unique(Tail(cands), seen)
    ELSE <<Head(cands)>> \o Unique(Tail(cands), seen \cup {Head(cands)})

\* Path(cand).read_text: the text behind a candidate; a ramdisk's fstab is
\* a complete one.
ReadText(c, vfs, sfs) ==
    IF c.root = <<"vendor">> THEN vfs[c.path]
    ELSE IF c.root = <<"system">> THEN sfs[c.path]
    ELSE Text(TRUE, {"/data", "/system", "/vendor", "ext4"}, TRUE)

\* The heuristic of the selection loop on a text that could be read.
PrefersText(text) ==
    /\ "/data" \in text.tokens
    /\ ("ext4" \in text.tokens \/ "f2fs" \in text.tokens \/ "ubifs" \in text.tokens)

RECURSIVE ChooseLastPreferred(_, _, _)
\* A selection loop without its break: the last preferred candidate.
ChooseLastPreferred(cands, vfs, sfs) ==
    IF cands = <<>> THEN {}
    ELSE LET later == ChooseLastPreferred(Tail(cands), vfs, sfs)
         IN  IF later # {} THEN later
             ELSE IF /\ ReadText(Head(cands), vfs, sfs).readable
                     /\ PrefersText(ReadText(Head(cands), vfs, sfs))
                  THEN {Head(cands)}
             ELSE {}

RECURSIVE ChooseFirstPreferred(_, _, _)
\* The selection loop: the first candidate that can be read and that the
\* heuristic prefers, as a set; {} when the loop ends without a choice.
ChooseFirstPreferred(cands, vfs, sfs) ==
    IF cands = <<>> THEN {}
    ELSE IF ~ReadText(Head(cands), vfs, sfs).readable
         THEN ChooseFirstPreferred(Tail(cands), vfs, sfs)
    ELSE IF PrefersText(ReadText(Head(cands), vfs, sfs)) THEN {Head(cands)}
    ELSE ChooseFirstPreferred(Tail(cands), vfs, sfs)

\* The selection: the loop's choice, else the first candidate.
ChooseCandidate(unique, vfs, sfs) ==
    LET preferred == ChooseFirstPreferred(unique, vfs, sfs)
    IN  IF preferred # {} THEN CHOOSE c \in preferred : TRUE ELSE unique[1]

\* The mounts the completeness check misses in the chosen text.
MissingMounts(text) == {m \in {"/system", "/vendor", "/data"} : m \notin text.tokens}

\* Whether Fstab(path) parses the file behind a candidate.
Parses(c, vfs, sfs) ==
    ReadText(c, vfs, sfs).readable /\ ReadText(c, vfs, sfs).wellFormed

\* A parse step that falls back to the other candidates when the chosen
\* one does not parse.
ParseAny(unique, chosen, vfs, sfs) ==
    LET parsable == SelectSeq(unique, LAMBDA c : Parses(c, vfs, sfs))
    IN  IF Parses(chosen, vfs, sfs)
        THEN [outcome |-> "parsed", parsed |-> <<chosen>>,
              warned |-> MissingMounts(ReadText(chosen, vfs, sfs))]
        ELSE IF parsable # <<>>
        THEN [outcome |-> "parsed", parsed |-> <<chosen, parsable[1]>>,
              warned |-> MissingMounts(ReadText(parsable[1], vfs, sfs))]
        ELSE [outcome |-> "RuntimeError", parsed |-> <<chosen>>, warned |-> {}]

\* The end of _locate_and_load_fstab: Fstab(chosen), its failure re-raised
\* as RuntimeError, then the completeness warning.
ParseChosen(unique, chosen, vfs, sfs) ==
    IF Parses(chosen, vfs, sfs)
    THEN [outcome |-> "parsed", parsed |-> <<chosen>>,
          warned |-> MissingMounts(ReadText(chosen, vfs, sfs))]
    ELSE [outcome |-> "RuntimeError", parsed |-> <<chosen>>, warned |-> {}]

\* _locate_and_load_fstab
LocateAndLoadFstab(b, rds, vfs, sfs) ==
    LET fromRamdisk ==
            IF LocatorRamdisk(b) = {} THEN <<>>
            ELSE LET slot == CHOOSE x \in LocatorRamdisk(b) : TRUE
                 IN  AsCandidates(<<"ramdisk", slot>>, RGlobFstab(rds[slot]))
        candidates ==
            fromRamdisk
            \o AsCandidates(<<"vendor">>, GlobEtcFstab(vfs))
            \o AsCandidates(<<"system">>, GlobEtcFstab(sfs))
            \o AsCandidates(<<"vendor">>, VendorFallback(vfs))
        unique == Unique(candidates, {})
        chosen == ChooseCandidate(unique, vfs, sfs)
        end == ParseChosen(unique, chosen, vfs, sfs)
    IN  IF unique = <<>>
        THEN [outcome |-> "FileNotFoundError", searched |-> LocatorRamdisk(b),
              candidates |-> unique, chosen |-> {}, parsed |-> <<>>,
              warned |-> {}]
        ELSE [outcome |-> end.outcome, searched |-> LocatorRamdisk(b),
              candidates |-> unique, chosen |-> {chosen}, parsed |-> end.parsed,
              warned |-> end.warned]

----------------------------------------------------------------------------
(* The proprietary files list on its own *)

\* A partition's files: for each relative path of the walk, absent or a
\* file with some bytes.
FilesOf(part, present) ==
    LET paths == SelectSeq(WalkOrder, LAMBDA r : r \in DOMAIN present)
    IN  [i \in DOMAIN paths |->
           ProprietaryFile(part, paths[i], present[paths[i]].bytes,
                           present[paths[i]].unreadable)]

Partition(i, treble, present) ==
    [name |-> i, treble |-> treble, files |-> FilesOf(i, present)]

ReadableFiles == [bytes : Contents, unreadable : {FALSE}]

AnyFiles == [bytes : Contents, unreadable : BOOLEAN]

PartialFunctions(D, R) == UNION {[d -> R] : d \in SUBSET D}

\* Two partitions of any group, any files, any section rules.
InitPipeline ==
    /\ \E t \in [1..2 -> BOOLEAN], fs \in [1..2 -> PartialFunctions(RelPaths, ReadableFiles)] :
         partitions = [i \in 1..2 |-> Partition(i, t[i], fs[i])]
    /\ matches \in [Range(RegistryNames) -> SUBSET RelPaths]
    /\ sectionFails = {}

\* Three Treble partitions that share PathA, readable or not, with no
\* section claiming it.
InitShared ==
    /\ \E fa \in [1..3 -> AnyFiles], hasB \in [1..3 -> BOOLEAN] :
         partitions =
           [i \in 1..3 |->
              Partition(i, TRUE,
                  [r \in {PathA} \cup (IF hasB[i] THEN {PathB} ELSE {}) |->
                     IF r = PathA THEN fa[i] ELSE [bytes |-> 1, unreadable |-> FALSE]])]
    /\ matches = [n \in Range(RegistryNames) |-> {}]
    /\ sectionFails = {}

\* Two partitions that each hold PathA and PathB, any section rules, and
\* any calls of a registered section's add_files raising.
InitSectionFailures ==
    /\ \E t \in [1..2 -> BOOLEAN] :
         partitions =
           [i \in 1..2 |->
              Partition(i, t[i], [r \in RelPaths |-> [bytes |-> i, unreadable |-> FALSE]])]
    /\ matches \in [Range(RegistryNames) -> SUBSET RelPaths]
    /\ sectionFails \in SUBSET (Range(RegistryNames) \X (1..2))

BuildDescriptions == {"", "build"}


\* ProprietaryFilesList(partitions)
PropInit ==
    /\ pfl.state = "none"
    /\ pfl' = ProprietaryFilesListInit(partitions, matches, sectionFails)
    /\ UNCHANGED <<partitions, matches, sectionFails, docs, bootVars, treeVars>>

\* get_formatted_list(build_description)
PropFormat ==
    /\ pfl.state = "constructed"
    /\ \E bd \in BuildDescriptions :
         docs' = (IF Len(docs) = 2 THEN Tail(docs) ELSE docs)
                 \o <<[bd |-> bd, text |-> GetFormattedList(pfl, bd)]>>
    /\ UNCHANGED <<partitions, matches, sectionFails, pfl, bootVars, treeVars>>

----------------------------------------------------------------------------
(* The boot configuration resolver on its own *)

VendorRamdiskCatalogue ==
    { File(<<<<"sbin">>, <<"recovery">>>>),
      File(<<<<"system">>, <<"bin">>, <<"recovery">>>>),
      File(<<<<"init", "recovery", "qcom", "rc">>>>),
      File(<<<<"init", "rc">>>>) }

VendorRamdisks ==
    {NoRamdisk, MissingRamdisk} \cup {Ramdisk(t) : t \in SUBSET VendorRamdiskCatalogue}

\* Dumps that vary what detection reads: the images present, the header
\* versions and vendor_boot's ramdisk.
InitDetect ==
    /\ images \in SUBSET Slots
    /\ \E bootHv \in HeaderVersions, otherHv \in {{}, {MaxHeaderVersion}} :
         info = [s \in Slots |->
                   ImageInfo(s, {}, IF s = "boot" THEN bootHv ELSE otherHv)]
    /\ \E vrd \in VendorRamdisks :
         ramdisk = [s \in Slots |-> IF s = "vendor_boot" THEN vrd ELSE Ramdisk({})]
    /\ pyGlobRaises \in BOOLEAN
    /\ unpackFails = {}
    /\ cleanupFails = {}

\* Dumps that vary what the merge of kernel, dt, dtb and dtbo reads: which
\* optional images exist and which of their fields are empty.
InitMergeBlobs ==
    /\ \E opt \in SUBSET {"init_boot", "vendor_boot", "vendor_kernel_boot", "dtbo"} :
         images = {"boot"} \cup opt
    /\ \E eb \in SUBSET (BlobFields \ {"dtbo"}), ev, ek \in SUBSET BlobFields,
          ei \in {{}, BlobFields} :
         info = [s \in Slots |->
                   ImageInfo(s, CASE s = "boot" -> eb
                                  [] s = "vendor_boot" -> ev
                                  [] s = "vendor_kernel_boot" -> ek
                                  [] s = "init_boot" -> ei
                                  [] OTHER -> {},
                             {})]
    /\ ramdisk = [s \in Slots |-> Ramdisk({})]
    /\ pyGlobRaises = FALSE
    /\ unpackFails = {}
    /\ cleanupFails = {}

\* Dumps that vary what the merge of base address, command line and page
\* size reads: which optional images exist and which scalars are empty.
InitMergeScalars ==
    /\ \E opt \in SUBSET {"init_boot", "vendor_boot", "vendor_kernel_boot"} :
         images = {"boot"} \cup opt
    /\ \E eb, ev, ei, ek \in SUBSET ScalarFields :
         info = [s \in Slots |->
                   ImageInfo(s, CASE s = "boot" -> eb
                                  [] s = "vendor_boot" -> ev
                                  [] s = "init_boot" -> ei
                                  [] s = "vendor_kernel_boot" -> ek
                                  [] OTHER -> {},
                             {})]
    /\ ramdisk = [s \in Slots |-> Ramdisk({})]
    /\ pyGlobRaises = FALSE
    /\ unpackFails = {}
    /\ cleanupFails = {}

\* Dumps that vary which managers expose a ramdisk path and whether
\* vendor_boot's ramdisk holds a recovery binary.
InitRamdisks ==
    /\ \E opt \in SUBSET {"recovery", "vendor_boot"} : images = {"boot"} \cup opt
    /\ info = [s \in Slots |-> ImageInfo(s, {}, {})]
    /\ \E rb, rr \in {NoRamdisk, MissingRamdisk, Ramdisk({})},
          rv \in {NoRamdisk, Ramdisk({}),
                  Ramdisk({File(<<<<"sbin">>, <<"recovery">>>>)})} :
         ramdisk = [s \in Slots |->
                      CASE s = "boot" -> rb
                        [] s = "recovery" -> rr
                        [] s = "vendor_boot" -> rv
                        [] OTHER -> Ramdisk({})]
    /\ pyGlobRaises = FALSE
    /\ unpackFails = {}
    /\ cleanupFails = {}

\* Dumps of any images, with images that fail to unpack and managers whose
\* cleanup fails.
InitFailures ==
    /\ images \in SUBSET Slots
    /\ info = [s \in Slots |-> ImageInfo(s, {}, {})]
    /\ ramdisk = [s \in Slots |-> Ramdisk({})]
    /\ pyGlobRaises = FALSE
    /\ unpackFails \in SUBSET (images \cap {"boot", "recovery", "vendor_kernel_boot"})
    /\ cleanupFails \in SUBSET (images \cap {"boot", "recovery", "vendor_kernel_boot"})

NotAsked == [called |-> FALSE, path |-> {}]

\* BootConfiguration(dump_path)
BootInit ==
    /\ bc.state = "none"
    /\ tree.pc = "none"
    /\ LET r == BootConfigurationNew(images, info, ramdisk, pyGlobRaises, unpackFails)
       IN  /\ bc' = r.obj
           /\ extracted' = r.extracted
    /\ UNCHANGED <<dumpVars, released, recoveryRamdisk, propVars, treeVars>>

\* boot_configuration.get_recovery_ramdisk_path()
BootRamdiskPath ==
    /\ bc.state = "constructed"
    /\ tree.pc = "none"
    /\ ~recoveryRamdisk.called
    /\ recoveryRamdisk' = [called |-> TRUE, path |-> GetRecoveryRamdiskPath(bc, ramdisk)]
    /\ UNCHANGED <<dumpVars, bc, extracted, released, propVars, treeVars>>

\* boot_configuration.cleanup(); the object is not used afterwards.
BootCleanup ==
    /\ bc.state = "constructed"
    /\ tree.pc = "none"
    /\ LET r == Cleanup(bc, cleanupFails)
       IN  /\ released' = released \o r.released
           /\ bc' = [bc EXCEPT !.state = "cleaned", !.error = r.error]
    /\ UNCHANGED <<dumpVars, extracted, recoveryRamdisk, propVars, treeVars>>

----------------------------------------------------------------------------
(* The generation run *)

Unreadable == Text(FALSE, {}, FALSE)
OnlyVendor == Text(TRUE, {"/vendor"}, TRUE)
NoFsType == Text(TRUE, {"/data", "/system"}, TRUE)
Full == Text(TRUE, {"/data", "/system", "/vendor", "ext4"}, TRUE)
Malformed == Text(TRUE, {"/data", "ubifs"}, FALSE)

TextCatalogue == {Unreadable, OnlyVendor, NoFsType, Full, Malformed}

NewRun == [pc |-> "new", sawBoot |-> "none", located |-> << >>, error |-> ""]

NoRun == [pc |-> "none", sawBoot |-> "none", located |-> << >>, error |-> ""]

\* Dumps of a generation run: boot with or without recovery and
\* vendor_boot, ramdisks with or without an fstab and a recovery binary,
\* and fstab files under vendor and system.
InitRun ==
    /\ \E opt \in SUBSET {"boot", "recovery", "vendor_boot"} : images = opt
    /\ info = [s \in Slots |-> ImageInfo(s, {}, {})]
    /\ \E withFstab \in SUBSET {"boot", "recovery", "vendor_boot"}, vbRecovery \in BOOLEAN :
         ramdisk = [s \in Slots |->
                      Ramdisk((IF s \in withFstab THEN {File(RamdiskFstab)} ELSE {})
                              \cup (IF s = "vendor_boot" /\ vbRecovery
                                    THEN {File(RamdiskRecovery)} ELSE {}))]
    /\ pyGlobRaises = FALSE
    /\ unpackFails = {}
    /\ cleanupFails = {}
    /\ \E q \in {{}} \cup {{t} : t \in TextCatalogue},
          e \in {{}, {OnlyVendor}, {Full}},
          z \in {{}, {Full}} :
         vendorFs = [path \in (IF q = {} THEN {} ELSE {EtcFstabQcom})
                              \cup (IF e = {} THEN {} ELSE {EtcFstab})
                              \cup (IF z = {} THEN {} ELSE {EtcInitFstabZram}) |->
                       CHOOSE t \in (IF path = EtcFstabQcom THEN q
                                     ELSE IF path = EtcFstab THEN e ELSE z) : TRUE]
    /\ \E q \in {{}} \cup {{t} : t \in TextCatalogue} :
         systemFs = [path \in (IF q = {} THEN {} ELSE {EtcFstabQcom}) |->
                       CHOOSE t \in q : TRUE]
    /\ partitions = <<Partition(1, TRUE, [r \in {PathA} |-> [bytes |-> 1, unreadable |-> FALSE]])>>
    /\ matches = [n \in Range(RegistryNames) |-> {}]
    /\ sectionFails = {}

\* Dumps with a complete fstab under vendor/etc, with images that fail to
\* unpack, managers whose cleanup fails and either kind of interpreter.
InitRunFailures ==
    /\ \E opt \in SUBSET {"recovery", "vendor_boot"} : images = {"boot"} \cup opt
    /\ info = [s \in Slots |-> ImageInfo(s, {}, {})]
    /\ \E vbRecovery \in BOOLEAN :
         ramdisk = [s \in Slots |->
                      Ramdisk(IF s = "vendor_boot" /\ vbRecovery
                              THEN {File(RamdiskRecovery)} ELSE {})]
    /\ pyGlobRaises \in BOOLEAN
    /\ unpackFails \in SUBSET (images \cap {"recovery", "vendor_boot"})
    /\ cleanupFails \in SUBSET (images \cap {"boot", "recovery"})
    /\ vendorFs = [path \in {EtcFstabQcom} |-> Full]
    /\ systemFs = << >>
    /\ partitions = <<Partition(1, TRUE, [r \in {PathA} |-> [bytes |-> 1, unreadable |-> FALSE]])>>
    /\ matches = [n \in Range(RegistryNames) |-> {}]
    /\ sectionFails = {}

\* DeviceTree.__init__ up to the check of the required build properties.
TreeProps ==
    /\ tree.pc = "new"
    /\ \E missingProps \in BOOLEAN :
         tree' = IF missingProps
                 THEN [tree EXCEPT !.pc = "failed", !.error = "ValueError"]
                 ELSE [tree EXCEPT !.pc = "props"]
    /\ UNCHANGED <<bootVars, propVars, vendorFs, systemFs>>

\* self.fstab = self._locate_and_load_fstab()
TreeFstab ==
    /\ tree.pc = "props"
    /\ LET r == LocateAndLoadFstab(bc, ramdisk, vendorFs, systemFs)
       IN  tree' = [tree EXCEPT
                      !.pc = IF r.outcome = "parsed" THEN "fstab" ELSE "failed",
                      !.error = IF r.outcome = "parsed" THEN "" ELSE r.outcome,
                      !.sawBoot = bc.state,
                      !.located = r]
    /\ UNCHANGED <<bootVars, propVars, vendorFs, systemFs>>

\* self.boot_configuration = BootConfiguration(self.path)
TreeBoot ==
    /\ tree.pc = "fstab"
    /\ LET r == BootConfigurationNew(images, info, ramdisk, pyGlobRaises, unpackFails)
       IN  /\ bc' = r.obj
           /\ extracted' = r.extracted
           /\ tree' = IF r.obj.state = "constructed"
                      THEN [tree EXCEPT !.pc = "boot"]
                      ELSE [tree EXCEPT !.pc = "failed", !.error = r.obj.error]
    /\ UNCHANGED <<dumpVars, released, recoveryRamdisk, propVars, vendorFs, systemFs>>

\* self.proprietary_files_list = ProprietaryFilesList(partitions)
TreeFiles ==
    /\ tree.pc = "boot"
    /\ pfl' = ProprietaryFilesListInit(partitions, matches, sectionFails)
    /\ tree' = [tree EXCEPT !.pc = "done"]
    /\ UNCHANGED <<partitions, matches, sectionFails, docs, bootVars, vendorFs, systemFs>>

\* device_tree.dump_to_folder(folder), which may fail part way.
TreeDump ==
    /\ tree.pc = "done"
    /\ \E fails \in BOOLEAN :
         tree' = IF fails
                 THEN [tree EXCEPT !.pc = "dumpFailed", !.error = "dump_to_folder"]
                 ELSE [tree EXCEPT !.pc = "dumped"]
    /\ UNCHANGED <<bootVars, propVars, vendorFs, systemFs>>

\* device_tree.cleanup(): boot_configuration.cleanup() with its exception
\* caught and logged.  The owner of the object calls it once, whether the
\* dump succeeded or failed.
TreeCleanup ==
    /\ tree.pc \in {"dumped", "dumpFailed"}
    /\ LET r == Cleanup(bc, cleanupFails)
       IN  /\ released' = released \o r.released
           /\ bc' = [bc EXCEPT !.state = "cleaned"]
    /\ tree' = [tree EXCEPT !.pc = "cleaned"]
    /\ UNCHANGED <<dumpVars, extracted, recoveryRamdisk, propVars, vendorFs, systemFs>>

----------------------------------------------------------------------------
(* Specifications *)

\* The state of the components that a specification leaves alone.
IdleBoot ==
    /\ images = {}
    /\ info = << >>
    /\ ramdisk = << >>
    /\ pyGlobRaises = FALSE
    /\ unpackFails = {}
    /\ cleanupFails = {}
    /\ bc = NoBootConfiguration("none", "")
    /\ extracted = <<>>
    /\ released = <<>>
    /\ recoveryRamdisk = NotAsked

IdleProp ==
    /\ partitions = <<>>
    /\ matches = [n \in Range(RegistryNames) |-> {}]
    /\ sectionFails = {}
    /\ pfl = NoProprietaryFilesList
    /\ docs = <<>>

IdleTree ==
    /\ vendorFs = << >>
    /\ systemFs = << >>
    /\ tree = NoRun

InitBoot ==
    /\ InitDetect \/ InitMergeBlobs \/ InitMergeScalars \/ InitRamdisks \/ InitFailures
    /\ bc = NoBootConfiguration("none", "")
    /\ extracted = <<>>
    /\ released = <<>>
    /\ recoveryRamdisk = NotAsked
    /\ IdleProp
    /\ IdleTree

NextBoot == BootInit \/ BootRamdiskPath \/ BootCleanup

SpecBoot == InitBoot /\ [][NextBoot]_vars

InitProp ==
    /\ InitPipeline \/ InitShared \/ InitSectionFailures
    /\ pfl = NoProprietaryFilesList
    /\ docs = <<>>
    /\ IdleBoot
    /\ IdleTree

NextProp == PropInit \/ PropFormat

SpecProp == InitProp /\ [][NextProp]_vars

InitTree ==
    /\ InitRun \/ InitRunFailures
    /\ bc = NoBootConfiguration("none", "")
    /\ extracted = <<>>
    /\ released = <<>>
    /\ recoveryRamdisk = NotAsked
    /\ pfl = NoProprietaryFilesList
    /\ docs = <<>>
    /\ tree = NewRun

NextTree ==
    TreeProps \/ TreeFstab \/ TreeBoot \/ TreeFiles \/ TreeDump \/ TreeCleanup

SpecTree == InitTree /\ [][NextTree]_vars

----------------------------------------------------------------------------
(* Claims about the boot configuration resolver *)

Constructed == bc.state = "constructed"

\* C6: once a BootConfiguration is constructed, recovery_mode is one of the
\* three defined values; it is separate_partition whenever recovery.img is
\* in the dump, whatever vendor_boot holds; it is vendor_boot_ramdisk
\* exactly when recovery.img is absent, vendor_boot.img is present and
\* recovery_in_vendor_boot is set; and it is boot_ramdisk otherwise.
C6_RecoveryMode ==
    Constructed =>
        /\ bc.recovery_mode \in RecoveryModes
        /\ "recovery" \in images => bc.recovery_mode = "separate_partition"
        /\ bc.recovery_mode = "vendor_boot_ramdisk"
             <=> /\ "recovery" \notin images
                 /\ "vendor_boot" \in images
                 /\ bc.recovery_in_vendor_boot
        /\ bc.recovery_mode = "boot_ramdisk"
             <=> /\ "recovery" \notin images
                 /\ ~("vendor_boot" \in images /\ bc.recovery_in_vendor_boot)

\* recovery.img present beside a vendor_boot whose ramdisk holds recovery
\* resources: the mode is separate_partition all the same.
C6_Witness ==
    /\ Constructed
    /\ {"recovery", "vendor_boot"} \subseteq images
    /\ bc.recovery_in_vendor_boot
    /\ bc.recovery_mode = "separate_partition"

\* C7: is_gki is true exactly when boot's header version is present and at
\* least 4 (3 gives false, 4 gives true, absent gives false), whichever
\* other images are present and whatever header versions they carry.
C7_IsGki ==
    Constructed =>
        LET hv == info["boot"].header_version
        IN  /\ hv = {} => ~bc.is_gki
            /\ hv = {3} => ~bc.is_gki
            /\ hv = {4} => bc.is_gki
            /\ \A v \in hv : bc.is_gki <=> ~(v < 4)

\* boot carries header version 3 while every other slot is present with a
\* header version above 4: is_gki stays false.
C7_Witness ==
    /\ Constructed
    /\ images = Slots
    /\ info["boot"].header_version = {3}
    /\ \A s \in Slots \ {"boot"} : \E v \in info[s].header_version : v > 4
    /\ ~bc.is_gki

RECURSIVE FirstNonEmpty(_)
FirstNonEmpty(values) ==
    IF values = <<>> THEN Empty
    ELSE IF Head(values) # Empty THEN Head(values)
    ELSE FirstNonEmpty(Tail(values))

\* The values of a field in the present slots of a precedence order.
PresentValues(order, field) ==
    LET present == SelectSeq(order, LAMBDA s : s \in images)
    IN  [i \in DOMAIN present |-> info[present[i]][field]]

BlobPrecedence == <<"vendor_kernel_boot", "vendor_boot", "boot">>

\* C8: the effective kernel, dt and dtb are each the first non-empty value
\* in the order vendor_kernel_boot, vendor_boot, boot over the present
\* slots, and the effective dtbo the first non-empty of vendor_kernel_boot,
\* vendor_boot and the seed (the dump's dtbo.img); init_boot, present or
\* not, empty or not, plays no part.
C8_BlobPrecedence ==
    Constructed =>
        /\ \A f \in {"kernel", "dt", "dtb"} :
             bc[f] = FirstNonEmpty(PresentValues(BlobPrecedence, f))
        /\ bc.dtbo = FirstNonEmpty(
                        PresentValues(<<"vendor_kernel_boot", "vendor_boot">>, "dtbo")
                        \o <<GetImagePath(images, "dtbo")>>)

\* vendor_kernel_boot is present with an empty kernel and an empty dtbo,
\* vendor_boot has a kernel but no dtbo, init_boot is present with a
\* kernel: the kernel is vendor_boot's and the dtbo is the seed.
C8_Witness ==
    /\ Constructed
    /\ {"vendor_kernel_boot", "vendor_boot", "init_boot", "dtbo"} \subseteq images
    /\ info["vendor_kernel_boot"]["kernel"] = Empty
    /\ info["vendor_kernel_boot"]["dtbo"] = Empty
    /\ info["vendor_boot"]["dtbo"] = Empty
    /\ info["init_boot"]["kernel"] # Empty
    /\ bc.kernel = <<"vendor_boot", "kernel">>
    /\ bc.dtbo = <<"dump", "dtbo">>

----------------------------------------------------------------------------
(* Claims about the proprietary files list *)

Listed == pfl.state = "constructed"

Survivors == Range(pfl.deduped)

\* The survivors that stand for a file: same relative path, same hash.
EntriesFor(f) ==
    {y \in Survivors : y.rel = f.rel /\ Sha256OfPath(y) = Sha256OfPath(f)}

\* C1: deduplication is keyed on relative path and content hash: two
\* collected (and readable) files with the same relative path and the same
\* bytes, hence the same hash, collapse
\* to exactly one surviving entry, and two with the same relative path and
\* different hashes leave two surviving entries, one for each content; so
\* for three partitions too (contents h1, h2, h2 leave two entries).
C1_PathHashKeyed ==
    Listed =>
        \A i, j \in DOMAIN pfl.candidates :
            LET f == pfl.candidates[i]
                g == pfl.candidates[j]
            IN  i < j /\ f.rel = g.rel /\ ~f.unreadable /\ ~g.unreadable =>
                    IF Sha256OfPath(f) = Sha256OfPath(g)
                    THEN Cardinality(EntriesFor(f)) = 1
                    ELSE Cardinality(EntriesFor(f) \cup EntriesFor(g)) = 2

\* The sections of the run: the registry's, then the Misc section.
RunSections ==
    [k \in 1..(Len(RegistryNames) + 1) |->
        IF k <= Len(RegistryNames) THEN pfl.sections[k] ELSE pfl.misc]

\* The positions of the file entries that follow the header at position h.
RECURSIVE EntriesAfter(_, _)
EntriesAfter(text, h) ==
    IF h + 1 \in DOMAIN text /\ text[h + 1].kind = "file"
    THEN {h + 1} \cup EntriesAfter(text, h + 1)
    ELSE {}

HeadersOf(text, name) ==
    {h \in DOMAIN text : text[h] = HeaderLine(name)}

\* The file entries of the first block a section has in a document.
FirstBlock(text, name) ==
    IF HeadersOf(text, name) = {} THEN {}
    ELSE EntriesAfter(text, CHOOSE h \in HeadersOf(text, name) :
                                \A o \in HeadersOf(text, name) : h <= o)

\* C2: two files with the same relative path and different bytes that were
\* both accepted into a section have two entries in that section's block of
\* every document get_formatted_list returns.
C2_BothEntriesAppear ==
    \A d \in DOMAIN docs : \A k \in DOMAIN RunSections :
        \A i, j \in DOMAIN RunSections[k].accepted :
            LET f == RunSections[k].accepted[i]
                g == RunSections[k].accepted[j]
            IN  i < j /\ f.rel = g.rel /\ f.bytes # g.bytes =>
                    Cardinality({e \in FirstBlock(docs[d].text, RunSections[k].name) :
                                    docs[d].text[e].path = f.rel}) >= 2

\* The names of the sections that hold a file, in registry order, Misc last.
ExpectedHeaders ==
    LET nonEmpty == SelectSeq(RunSections, LAMBDA sec : sec.accepted # <<>>)
    IN  [k \in DOMAIN nonEmpty |-> nonEmpty[k].name]

HeaderNames(text) ==
    LET headers == SelectSeq(text, LAMBDA l : l.kind = "header")
    IN  [k \in DOMAIN headers |-> headers[k].name]

\* C3: every section that holds a file contributes exactly one block (a
\* blank line, its header, its file lines), the blocks are in registry order
\* with Misc last and once, and a section without files contributes nothing.
C3_OneBlockPerSection ==
    \A d \in DOMAIN docs :
        LET text == docs[d].text
        IN  /\ HeaderNames(text) = ExpectedHeaders
            /\ \A h \in DOMAIN text :
                 text[h].kind = "header" =>
                    /\ h > 1 /\ text[h - 1] = BlankLine
                    /\ EntriesAfter(text, h) # {}
            /\ \A b \in DOMAIN text :
                 text[b] = BlankLine =>
                    b + 1 \in DOMAIN text /\ text[b + 1].kind = "header"
            /\ \A k \in DOMAIN RunSections :
                 {text[e].path : e \in FirstBlock(text, RunSections[k].name)}
                    = Range(GetFiles(RunSections[k]))

RegistryAccepted ==
    UNION {Range(pfl.sections[k].accepted) : k \in DOMAIN RegistryNames}

AllAccepted == RegistryAccepted \cup Range(pfl.misc.accepted)

Unclaimed == Survivors \ RegistryAccepted

\* C4: a surviving file that no registered section claimed is in the Misc
\* section exactly when its partition is Treble; an unclaimed file of
\* another partition is in no section, and its relative path is a line of a
\* document only where an accepted file has that same path.
C4_MiscOnlyForTreble ==
    Listed =>
        \A f \in Unclaimed :
            /\ f \in Range(pfl.misc.accepted) <=> partitions[f.part].treble
            /\ ~partitions[f.part].treble =>
                 /\ f \notin AllAccepted
                 /\ \A d \in DOMAIN docs :
                      FileLine(f.rel) \in Range(docs[d].text)
                         => \E g \in AllAccepted : g.rel = f.rel

\* A run that left one unclaimed file to Misc and dropped another, after a
\* document was written without the dropped file's path.
C4_Witness ==
    /\ Listed
    /\ docs # <<>>
    /\ \E f, g \in Unclaimed :
         /\ partitions[f.part].treble
         /\ f \in Range(pfl.misc.accepted)
         /\ ~partitions[g.part].treble
         /\ g \notin AllAccepted
         /\ FileLine(f.rel) \in Range(docs[1].text)
         /\ FileLine(g.rel) \notin Range(docs[1].text)

\* C5: in every document the file lines of a block are in strictly
\* ascending ordinal order, and two calls in a row with the same build
\* description return the same text.
C5_SortedAndIdempotent ==
    /\ \A d \in DOMAIN docs : \A i \in DOMAIN docs[d].text :
         LET text == docs[d].text
         IN  i + 1 \in DOMAIN text /\ text[i].kind = "file" /\ text[i + 1].kind = "file"
                => StrLess(text[i].path, text[i + 1].path)
    /\ Len(docs) = 2 /\ docs[1].bd = docs[2].bd => docs[1].text = docs[2].text

\* A section accepted PathB before PathA and get_formatted_list ran twice
\* with the same build description: PathA is listed right before PathB.
C5_Witness ==
    /\ Len(docs) = 2
    /\ docs[1].bd = "build" /\ docs[2].bd = "build"
    /\ \E k \in DOMAIN pfl.sections : GetFiles(pfl.sections[k]) = <<PathB, PathA>>
    /\ \E i \in DOMAIN docs[2].text :
         /\ i + 1 \in DOMAIN docs[2].text
         /\ docs[2].text[i] = FileLine(PathA)
         /\ docs[2].text[i + 1] = FileLine(PathB)

----------------------------------------------------------------------------
(* Claims about the fstab locator in a generation run *)

\* The locator has run and found candidates.
Located == tree.located # << >>

\* The boot configuration the dump resolves to.
ResolvedBoot == BootConfigurationInit(images, info, ramdisk, pyGlobRaises).obj

\* The fstab* files of the ramdisk get_recovery_ramdisk_path designates,
\* as candidates in the order of the walk.
DesignatedFstabs ==
    IF ResolvedBoot.state # "constructed" THEN <<>>
    ELSE LET slots == GetRecoveryRamdiskPath(ResolvedBoot, ramdisk)
         IN  IF slots = {} THEN <<>>
             ELSE LET slot == CHOOSE x \in slots : TRUE
                  IN  AsCandidates(<<"ramdisk", slot>>, RGlobFstab(ramdisk[slot]))

\* C9: when the locator runs in a generation run whose designated ramdisk
\* holds fstab* files, the boot configuration has been resolved, the
\* candidate list starts with those files, and the first of them, whose
\* text qualifies, is the one chosen.
C9_RamdiskSearchedFirst ==
    Located /\ DesignatedFstabs # <<>> =>
        /\ tree.sawBoot = "constructed"
        /\ Len(tree.located.candidates) >= Len(DesignatedFstabs)
        /\ SubSeq(tree.located.candidates, 1, Len(DesignatedFstabs)) = DesignatedFstabs
        /\ tree.located.chosen = {DesignatedFstabs[1]}

\* The test of the selection on a candidate's text.
Qualifies(c) ==
    LET text == ReadText(c, vendorFs, systemFs)
    IN  /\ text.readable
        /\ "/data" \in text.tokens
        /\ text.tokens \cap {"ext4", "f2fs", "ubifs"} # {}

\* C10: of a non-empty candidate list the locator chooses the earliest
\* qualifying candidate, the first candidate when none qualifies; a
\* qualifying <vendor>/etc candidate is never passed over for one of
\* <system>/etc.
C10_EarliestQualifying ==
    Located /\ tree.located.candidates # <<>> =>
        LET unique == tree.located.candidates
            qualifying == {i \in DOMAIN unique : Qualifies(unique[i])}
            first == CHOOSE i \in qualifying : \A j \in qualifying : i <= j
        IN  /\ tree.located.chosen =
                  {unique[IF qualifying = {} THEN 1 ELSE first]}
            /\ (\E i \in qualifying : unique[i].root = <<"vendor">> /\ Len(unique[i].path) = 2)
                  => \A c \in tree.located.chosen : c.root # <<"system">>

\* The list is a non-qualifying vendor file, a qualifying vendor file and
\* later a qualifying system file; the second candidate is chosen.
C10_Witness ==
    /\ Located
    /\ Len(tree.located.candidates) >= 3
    /\ LET unique == tree.located.candidates
       IN  /\ ReadText(unique[1], vendorFs, systemFs).readable
           /\ ~Qualifies(unique[1])
           /\ Qualifies(unique[2])
           /\ unique[2].root = <<"vendor">>
           /\ \E i \in 3..Len(unique) :
                Qualifies(unique[i]) /\ unique[i].root = <<"system">>
           /\ tree.located.chosen = {unique[2]}
           /\ tree.located.outcome = "parsed"

----------------------------------------------------------------------------
(* Claims about the lifetime of the extraction temporaries *)

\* How often a slot's temporaries were released.
Releases(s) == Cardinality({i \in DOMAIN released : released[i] = s})

\* C11: after cleanup() returned or failed, every extracted slot whose own
\* release did not fail has been released exactly once.
C11_CleanupReleasesOthers ==
    bc.state = "cleaned" =>
        \A s \in Range(extracted) : s \notin cleanupFails => Releases(s) = 1

\* C12: when a generation run has ended, in success or in failure, every
\* extracted slot has been released exactly once (no release failing).
C12_ReleasedOnEveryExit ==
    tree.pc \in {"failed", "cleaned"} /\ cleanupFails = {} =>
        \A s \in Range(extracted) : Releases(s) = 1

\* C13: construction fails with "No boot image found" exactly when boot.img
\* is absent, and then nothing was extracted; with boot.img present a
\* failure is an image that does not unpack or a pattern rglob rejects,
\* never an optional image that is absent.
C13_BootIsMandatory ==
    bc.state # "none" =>
        /\ (bc.state = "failed" /\ bc.error = "No boot image found")
              <=> "boot" \notin images
        /\ "boot" \notin images => extracted = <<>>
        /\ "boot" \in images /\ bc.state = "failed" =>
              \/ \E s \in images : s \in unpackFails
              \/ "vendor_boot" \in images /\ pyGlobRaises

\* The dump holds every optional image and no boot.img: the constructor
\* failed on the assertion with nothing extracted.
C13_Witness ==
    /\ images = Slots \ {"boot"}
    /\ bc.state = "failed"
    /\ bc.error = "No boot image found"
    /\ extracted = <<>>

----------------------------------------------------------------------------
(* Claims about the recovery ramdisk and the scalars *)

\* The slot's image was unpacked and its manager exposes a ramdisk path.
HasRamdiskPath(s) == s \in images /\ ramdisk[s].attr

\* C14: get_recovery_ramdisk_path answers recovery's ramdisk when recovery
\* has one, else vendor_boot's when recovery_in_vendor_boot holds and
\* vendor_boot has one, else boot's when boot has one, else none; it never
\* answers vendor_boot's while recovery_in_vendor_boot is false.
C14_RecoveryRamdiskPriority ==
    recoveryRamdisk.called =>
        LET viaVendorBoot ==
                bc.recovery_in_vendor_boot /\ HasRamdiskPath("vendor_boot")
        IN  /\ HasRamdiskPath("recovery") => recoveryRamdisk.path = {"recovery"}
            /\ ~HasRamdiskPath("recovery") /\ viaVendorBoot
                  => recoveryRamdisk.path = {"vendor_boot"}
            /\ ~HasRamdiskPath("recovery") /\ ~viaVendorBoot /\ HasRamdiskPath("boot")
                  => recoveryRamdisk.path = {"boot"}
            /\ ~HasRamdiskPath("recovery") /\ ~viaVendorBoot /\ ~HasRamdiskPath("boot")
                  => recoveryRamdisk.path = {}
            /\ ~bc.recovery_in_vendor_boot => recoveryRamdisk.path # {"vendor_boot"}

\* recovery.img was unpacked without a ramdisk path and vendor_boot's
\* ramdisk holds the recovery binary: the answer is vendor_boot's ramdisk.
C14_Witness ==
    /\ recoveryRamdisk.called
    /\ "recovery" \in images
    /\ ~ramdisk["recovery"].attr
    /\ bc.recovery_in_vendor_boot
    /\ recoveryRamdisk.path = {"vendor_boot"}

\* vendor_boot's unpacked ramdisk exists and holds a file at sbin/recovery
\* or system/bin/recovery, or a file named init.recovery.<x>.rc anywhere.
HoldsRecoveryResources ==
    /\ "vendor_boot" \in images
    /\ ramdisk["vendor_boot"].attr
    /\ ramdisk["vendor_boot"].exists
    /\ \E e \in ramdisk["vendor_boot"].tree :
         /\ e.file
         /\ \/ e.path = <<<<"sbin">>, <<"recovery">>>>
            \/ e.path = <<<<"system">>, <<"bin">>, <<"recovery">>>>
            \/ MatchesInitRecoveryRc(e.path[Len(e.path)])

\* C15: with boot.img present and every image unpacking, construction
\* completes, and recovery_in_vendor_boot is true exactly when
\* vendor_boot's ramdisk exists and holds one of the recovery resources.
C15_RecoveryInVendorBoot ==
    bc.state # "none" /\ "boot" \in images /\ unpackFails = {} =>
        /\ bc.state # "failed"
        /\ bc.recovery_in_vendor_boot <=> HoldsRecoveryResources

ScalarPrecedence == <<"vendor_kernel_boot", "init_boot", "vendor_boot", "boot">>

\* C16: the effective base address, command line and page size are each
\* the first non-empty value in the order vendor_kernel_boot, init_boot,
\* vendor_boot, boot over the present slots, and no effective kernel, dt,
\* dtb or dtbo is init_boot's.
C16_ScalarPrecedence ==
    Constructed =>
        /\ \A f \in ScalarFields :
             bc[f] = FirstNonEmpty(PresentValues(ScalarPrecedence, f))
        /\ \A f \in BlobFields : bc[f] # <<"init_boot", f>>

\* vendor_kernel_boot has no command line, init_boot and vendor_boot have
\* one, and init_boot has no page size: the command line is init_boot's
\* and the page size vendor_boot's.
C16_Witness ==
    /\ Constructed
    /\ {"vendor_kernel_boot", "init_boot", "vendor_boot"} \subseteq images
    /\ info["vendor_kernel_boot"]["cmdline"] = Empty
    /\ info["vendor_kernel_boot"]["pagesize"] = Empty
    /\ info["init_boot"]["pagesize"] = Empty
    /\ info["vendor_boot"]["cmdline"] # Empty
    /\ bc.cmdline = <<"init_boot", "cmdline">>
    /\ bc.pagesize = <<"vendor_boot", "pagesize">>

----------------------------------------------------------------------------
(* Claims about failures during classification and location *)

\* The registered sections, by position, that would claim a file and whose
\* call for the file's partition does not raise.
AbleClaimants(f) ==
    {k \in DOMAIN RegistryNames :
        /\ f.rel \in matches[RegistryNames[k]]
        /\ <<RegistryNames[k], f.part>> \notin sectionFails}

\* C17: a registered section whose call raises for a partition takes
\* nothing and hides nothing: every surviving file is accepted by the first
\* section in registry order that claims it and whose call for its
\* partition did not raise, and by that one only; a file left by all of
\* them is in Misc exactly when its partition is Treble.
C17_SectionFailureIsolated ==
    Listed =>
        \A f \in Survivors :
            /\ \A k \in DOMAIN RegistryNames :
                 f \in Range(pfl.sections[k].accepted)
                    <=> (k \in AbleClaimants(f) /\ \A j \in AbleClaimants(f) : k <= j)
            /\ AbleClaimants(f) = {} =>
                 (f \in Range(pfl.misc.accepted) <=> partitions[f.part].treble)

\* Fastboot's call raises for partition 1, which is Treble: a file of that
\* partition that Fastboot and VR both claim went to VR, one that only
\* Fastboot claims went to Misc, and Fastboot still took a file of
\* partition 2.
C17_Witness ==
    /\ Listed
    /\ <<"Fastboot", 1>> \in sectionFails
    /\ \E f, g, h \in Survivors :
         /\ f.part = 1 /\ g.part = 1 /\ h.part = 2
         /\ f.rel \in matches["Fastboot"] /\ f.rel \in matches["VR"]
         /\ g.rel \in matches["Fastboot"] /\ g.rel \notin matches["VR"]
         /\ f \in Range(pfl.sections[2].accepted)
         /\ g \in Range(pfl.misc.accepted)
         /\ h \in Range(pfl.sections[1].accepted)

\* C18: the locator ends in one parsed table or in a failure.  Without
\* candidates it fails with FileNotFoundError and parses nothing; with
\* candidates it hands the chosen one, and no other, to the parser, fails
\* with RuntimeError about that candidate when the parse fails, and returns
\* the table, with a warning at most, when mounts are missing.
C18_OneTableOrFailure ==
    Located =>
        LET r == tree.located
        IN  /\ r.candidates = <<>> <=> r.outcome = "FileNotFoundError"
            /\ r.outcome = "FileNotFoundError" =>
                  r.parsed = <<>> /\ r.chosen = {} /\ tree.error = "FileNotFoundError"
            /\ r.candidates # <<>> =>
                  \E c \in r.chosen :
                     /\ r.chosen = {c}
                     /\ r.parsed = <<c>>
                     /\ IF /\ ReadText(c, vendorFs, systemFs).readable
                           /\ ReadText(c, vendorFs, systemFs).wellFormed
                        THEN /\ r.outcome = "parsed"
                             /\ tree.error \notin {"FileNotFoundError", "RuntimeError"}
                             /\ r.warned = {"/system", "/vendor", "/data"}
                                              \ ReadText(c, vendorFs, systemFs).tokens
                        ELSE r.outcome = "RuntimeError" /\ tree.error = "RuntimeError"

\* The chosen candidate does not parse while a later candidate would: the
\* locator failed with RuntimeError and parsed the chosen one only.
C18_Witness ==
    /\ Located
    /\ tree.located.outcome = "RuntimeError"
    /\ tree.pc = "failed"
    /\ \E i \in DOMAIN tree.located.candidates :
         LET c == tree.located.candidates[i]
         IN  /\ c \notin tree.located.chosen
             /\ ReadText(c, vendorFs, systemFs).readable
             /\ ReadText(c, vendorFs, systemFs).wellFormed
    /\ Len(tree.located.parsed) = 1

\* The place of a collected file in the candidate list (every collected
\* file carries its partition, so no two places hold the same file).
PlaceOf(f) == CHOOSE i \in DOMAIN pfl.candidates : pfl.candidates[i] = f

\* C19: an unreadable file hashes to the empty sentinel, so of the
\* unreadable files collected at one relative path exactly one survives
\* deduplication, an unreadable and a readable file at one relative path
\* are both represented among the survivors, and the survivors are an
\* order-preserving sub-list of the candidates that holds the first
\* occurrence of every relative path.
C19_UnreadableFiles ==
    Listed =>
        /\ \A i, j \in DOMAIN pfl.candidates :
              LET f == pfl.candidates[i]
                  g == pfl.candidates[j]
              IN  i < j /\ f.rel = g.rel =>
                      /\ f.unreadable /\ g.unreadable =>
                            Cardinality({y \in Survivors :
                                            y.rel = f.rel /\ y.unreadable}) = 1
                      /\ f.unreadable # g.unreadable =>
                            EntriesFor(f) # {} /\ EntriesFor(g) # {}
        /\ \A k \in DOMAIN pfl.deduped :
              \E i \in DOMAIN pfl.candidates : pfl.candidates[i] = pfl.deduped[k]
        /\ \A k, l \in DOMAIN pfl.deduped :
              k < l => PlaceOf(pfl.deduped[k]) < PlaceOf(pfl.deduped[l])
        /\ \A i \in DOMAIN pfl.candidates :
              (\A h \in 1..(i - 1) : pfl.candidates[h].rel # pfl.candidates[i].rel)
                  => pfl.candidates[i] \in Survivors

====
